---- MODULE Spec2Model ----
(***************************************************************************)
(* Model of the Outscraper MCP server (outscraper_mcp/server.py): the      *)
(* OutscraperClient methods that plan and issue one HTTP GET per call,     *)
(* _handle_response that interprets the answer, and the eight tool         *)
(* functions that turn the client's result into the records they print.    *)
(*                                                                         *)
(* A tool call is split at its only blocking point, requests.get: the      *)
(* tool's action builds the request and leaves the call "waiting"; the     *)
(* action Complete receives the remote answer and runs the rest of the     *)
(* tool function to its return.                                            *)
(*                                                                         *)
(* environ is the process environment (OUTSCRAPER_API_KEY), client the     *)
(* module-level OutscraperClient, http the exchanges of the HTTP wrapper   *)
(* (outscraper_mcp/server_http.py), whose POST /mcp runs a tool, mcp the   *)
(* FastMCP instance with the tools registered by the @mcp.tool()           *)
(* decorators.                                                             *)
(***************************************************************************)
EXTENDS Integers, Sequences, FiniteSets, TLC

VARIABLES calls, environ, client, http, mcp

vars == <<calls, environ, client, http, mcp>>

(***************************************************************************)
(* Bounds of the model.                                                    *)
(***************************************************************************)
\* longest query list submitted in one call
MaxQueries == 11
\* most records in one decoded payload (or in one nested group of it)
MaxRecords == 5
\* largest reviews_limit submitted
MaxReviewsLimit == 500
\* largest limit submitted to google_maps_search, apart from the default
MaxLimit == 3

(***************************************************************************)
(* Python values.                                                          *)
(***************************************************************************)
\* an Optional argument: <<>> is None, <<v>> is the value v
None == <<>>

Some(v) == <<v>>

Min(a, b) == IF a < b THEN a ELSE b

Max(a, b) == IF a > b THEN a ELSE b

\* s[:n] of Python: a negative n counts from the end
SliceTo(s, n) ==
    IF n >= 0 THEN SubSeq(s, 1, Min(n, Len(s)))
    ELSE SubSeq(s, 1, Max(0, Len(s) + n))

\* decoded JSON values
JNull == [kind |-> "null"]

JStr(s) == [kind |-> "str", s |-> s]

\* a mapping that stands for one entity (a place, a review, a route, ...)
JDict(id) == [kind |-> "dict", id |-> id]

JList(items) == [kind |-> "list", items |-> items]

\* a top-level JSON object: `data` present or not, and the job id of the
\* envelope ("" when the object has no other key)
JObj(has_data, data, job) ==
    [kind |-> "obj", has_data |-> has_data, data |-> data, job |-> job]

\* isinstance(v, list)
IsList(v) == v.kind = "list"

\* isinstance(v, dict)
IsDict(v) == v.kind \in {"dict", "obj"}

\* bool(v) of Python for a decoded JSON value
Truthy(v) ==
    CASE v.kind = "null" -> FALSE
      [] v.kind = "str"  -> v.s # ""
      [] v.kind = "list" -> v.items # <<>>
      [] v.kind = "dict" -> TRUE
      [] v.kind = "obj"  -> v.has_data \/ v.job # ""

\* bool(x) of Python for an Optional[str] argument
TruthyStr(opt) == opt # None /\ opt[1] # ""

\* bool(x) of Python for an Optional[int] argument
TruthyInt(opt) == opt # None /\ opt[1] # 0

\* bool(x) of Python for an Optional[List[str]] argument
TruthyList(opt) == opt # None /\ opt[1] # <<>>

(***************************************************************************)
(* OutscraperClient.                                                       *)
(***************************************************************************)
\* a response body that is not JSON: response.json() raises on it
RawText(t) == [kind |-> "text", raw |-> t]

\* outcomes of a client method
Return(v) == [kind |-> "return", value |-> v]

Raise(e) == [kind |-> "raise", exc |-> e]

\* a slip of the failure message: the response text left out
RequestFailed_without_text(status_code, text) ==
    [type |-> "Exception", status_code |-> status_code, text |-> [kind |-> "text", raw |-> ""]]

\* Exception(f'API request failed with status code: {status_code}, Response: {text}')
RequestFailed(status_code, text) ==
    [type |-> "Exception", status_code |-> status_code, text |-> text]

\* what response.json() and .get raise
JSONDecodeError == [type |-> "JSONDecodeError"]

AttributeError == [type |-> "AttributeError"]

\* what a str operation applied to None raises (None[:200], ', '.join([None])),
\* and a tool function called without its `query`
TypeError == [type |-> "TypeError"]

\* a slip of the status test: 300 taken for a success
IsSuccess_upto_300(status_code) == 199 < status_code /\ status_code <= 300

\* 199 < response.status_code < 300
IsSuccess(status_code) == 199 < status_code /\ status_code < 300

\* a slip of the default: response.json().get('data') or []
GetData_or_empty(body) ==
    IF body.has_data /\ Truthy(body.data) THEN body.data ELSE JList(<<>>)

\* response.json().get('data', [])
GetData(body) == IF body.has_data THEN body.data ELSE JList(<<>>)

\* a slip of _handle_response: `data` extracted in Async mode too
handle_response_always_data(response, wait_async) ==
    IF IsSuccess(response.status_code)
    THEN IF response.text.kind = "text"
         THEN Raise(JSONDecodeError)
         ELSE IF response.text.kind = "obj"
              THEN Return(GetData(response.text))
              ELSE Raise(AttributeError)
    ELSE Raise(RequestFailed(response.status_code, response.text))

\* a slip of the interpretation: the mode kept in one place for all calls,
\* so that an answer is read as asynchronous while any call in flight is
handle_response_shared(response, wait_async) ==
    LET shared == \/ wait_async
                  \/ \E c \in DOMAIN calls :
                         calls[c].pc = "waiting" /\ calls[c].plan.wait_async
    IN  IF IsSuccess(response.status_code)
        THEN IF response.text.kind = "text"
             THEN Raise(JSONDecodeError)
             ELSE IF shared
                  THEN Return(response.text)
                  ELSE IF response.text.kind = "obj"
                       THEN Return(GetData(response.text))
                       ELSE Raise(AttributeError)
        ELSE Raise(RequestFailed(response.status_code, response.text))

\* OutscraperClient._handle_response(response, wait_async)
handle_response(response, wait_async) ==
    IF IsSuccess(response.status_code)
    THEN IF response.text.kind = "text"
         THEN Raise(JSONDecodeError)
         ELSE IF wait_async
              THEN Return(response.text)
              ELSE IF response.text.kind = "obj"
                   THEN Return(GetData(response.text))
                   ELSE Raise(AttributeError)
    ELSE Raise(RequestFailed(response.status_code, response.text))

\* a slip of the normalisation: the queries made unique, order lost
Queries_unique(query) ==
    IF query.kind = "str" THEN <<query.s>>
    ELSE LET seen == {query.items[i] : i \in DOMAIN query.items}
             pick[S \in SUBSET seen] ==
                 IF S = {} THEN <<>>
                 ELSE LET x == CHOOSE y \in S : TRUE IN <<x>> \o pick[S \ {x}]
         IN  pick[seen]

\* queries = [query] if isinstance(query, str) else query
Queries(query) == IF query.kind = "str" THEN <<query.s>> ELSE query.items

\* a slip of the optional parameters: `if x is not None:` for `if x:`
Optional_not_none(present, k, opt) == IF opt # <<>> THEN k :> opt[1] ELSE <<>>

\* `if x: params[k] = x` for an Optional argument x
Optional(present, k, opt) == IF present THEN k :> opt[1] ELSE <<>>

\* a slip of wait_async_search: `>= 10` for `> 10`
wait_async_search_from_10(queries, limit) == Len(queries) >= 10 /\ limit > 1

\* wait_async of OutscraperClient.google_maps_search
wait_async_search(queries, limit) == Len(queries) > 10 /\ limit > 1

\* a slip of wait_async_reviews: `> 500` for `> 499`
wait_async_reviews_above_500(queries, reviews_limit) ==
    reviews_limit > 500 \/ reviews_limit = 0 \/ Len(queries) > 10

\* wait_async of OutscraperClient.google_maps_reviews
wait_async_reviews(queries, reviews_limit) ==
    reviews_limit > 499 \/ reviews_limit = 0 \/ Len(queries) > 10

\* a slip of the planning: after a failed call, every later call is planned
\* asynchronous
Plan_after_failure(path, params, wait_async) ==
    LET failed == \E c \in DOMAIN calls :
                      calls[c].pc = "done" /\ calls[c].result.kind = "raise"
    IN  [path |-> path,
         params |-> IF failed THEN ("async" :> TRUE) @@ params ELSE params,
         wait_async |-> wait_async \/ failed]

\* what a client method has decided when it calls requests.get
Plan(path, params, wait_async) ==
    [path |-> path, params |-> params, wait_async |-> wait_async]

Client_google_maps_search(query, limit, language, region, drop_duplicates, enrichment) ==
    LET queries == Queries(query)
        wait_async == wait_async_search(queries, limit)
    IN  Plan("/maps/search-v3",
             [query |-> queries, language |-> language,
              organizationsPerQueryLimit |-> limit, async |-> wait_async,
              dropDuplicates |-> drop_duplicates]
               @@ Optional(TruthyStr(region), "region", region)
               @@ Optional(TruthyList(enrichment), "enrichment", enrichment),
             wait_async)

\* a slip of google_maps_reviews: the `async` parameter taken from the number
\* of queries alone, the response still read with wait_async
Client_google_maps_reviews_flag_by_queries(query, reviews_limit, limit, sort, language, region, cutoff) ==
    LET queries == Queries(query)
        wait_async == wait_async_reviews(queries, reviews_limit)
    IN  Plan("/maps/reviews-v3",
             [query |-> queries, reviewsLimit |-> reviews_limit, limit |-> limit,
              sort |-> sort, language |-> language, async |-> Len(queries) > 10]
               @@ Optional(TruthyStr(region), "region", region)
               @@ Optional(TruthyInt(cutoff), "cutoff", cutoff),
             wait_async)

Client_google_maps_reviews(query, reviews_limit, limit, sort, language, region, cutoff) ==
    LET queries == Queries(query)
        wait_async == wait_async_reviews(queries, reviews_limit)
    IN  Plan("/maps/reviews-v3",
             [query |-> queries, reviewsLimit |-> reviews_limit, limit |-> limit,
              sort |-> sort, language |-> language, async |-> wait_async]
               @@ Optional(TruthyStr(region), "region", region)
               @@ Optional(TruthyInt(cutoff), "cutoff", cutoff),
             wait_async)

\* a slip of google_maps_photos: Async for long query lists, as in google_maps_reviews
Client_google_maps_photos_async(query, photos_limit, limit, language, region) ==
    Plan("/maps/photos",
         [query |-> Queries(query), photosLimit |-> photos_limit, limit |-> limit,
          language |-> language, async |-> Len(Queries(query)) > 10]
           @@ Optional(TruthyStr(region), "region", region),
         Len(Queries(query)) > 10)

Client_google_maps_photos(query, photos_limit, limit, language, region) ==
    Plan("/maps/photos",
         [query |-> Queries(query), photosLimit |-> photos_limit, limit |-> limit,
          language |-> language]
           @@ Optional(TruthyStr(region), "region", region),
         FALSE)

Client_google_maps_directions(query, travel_mode, departure_time, language) ==
    Plan("/maps/directions",
         [query |-> Queries(query), travelMode |-> travel_mode, language |-> language]
           @@ Optional(TruthyInt(departure_time), "departureTime", departure_time),
         FALSE)

Client_google_search(query, pages_per_query, language, region) ==
    Plan("/google-search-v3",
         [query |-> Queries(query), pagesPerQuery |-> pages_per_query,
          language |-> language]
           @@ Optional(TruthyStr(region), "region", region),
         FALSE)

Client_google_search_news(query, pages_per_query, language, region, tbs) ==
    Plan("/google-search-news",
         [query |-> Queries(query), pagesPerQuery |-> pages_per_query,
          language |-> language]
           @@ Optional(TruthyStr(region), "region", region)
           @@ Optional(TruthyStr(tbs), "tbs", tbs),
         FALSE)

Client_google_play_reviews(query, reviews_limit, sort, language) ==
    Plan("/google-play-reviews",
         [query |-> Queries(query), reviewsLimit |-> reviews_limit, sort |-> sort,
          language |-> language],
         FALSE)

Client_emails_and_contacts(query) ==
    Plan("/emails-and-contacts", [query |-> Queries(query)], FALSE)

(***************************************************************************)
(* The tool functions: what each one makes of the client's result.         *)
(***************************************************************************)
\* "No ... found for the given query."
NoResults == [kind |-> "none"]

\* header + one formatted block per record of `delivered`; `count` is the
\* number the header prints (None when it prints none), `numbers` the index
\* printed with each block (<<>> when the tool prints none)
Listing(count, delivered, numbers) ==
    [kind |-> "records", count |-> count, delivered |-> delivered, numbers |-> numbers]

\* header + str(results)
RawDump(results) == [kind |-> "raw", value |-> results]

\* f"Error ...: {str(e)}"
ErrorText(e) == [kind |-> "error", exc |-> e]

\* the positions of s that hold a mapping
DictPositions(s) == SelectSeq([i \in 1..Len(s) |-> i], LAMBDA i : IsDict(s[i]))

\* a slip of the loop: the isinstance test left out
Dicts_unchecked(s) == s

\* the mappings of s, in order: `if isinstance(x, dict)` inside the loop
Dicts(s) == SelectSeq(s, IsDict)

\* a slip of the unwrap: the first element taken for the group when it is no list
Unwrap_first_only(results) ==
    IF IsList(results.items[1]) THEN results.items[1].items ELSE <<results.items[1]>>

\* a slip of the unwrap: the test for the wrapped shape left out
Unwrap_never(results) == results.items

\* a slip of the unwrap: the groups of all queries joined, for the first one
RECURSIVE JoinGroups(_)
JoinGroups(items) ==
    IF items = <<>> THEN <<>>
    ELSE (IF IsList(Head(items)) THEN Head(items).items ELSE <<Head(items)>>)
           \o JoinGroups(Tail(items))

Unwrap_all_groups(results) ==
    IF IsList(results.items[1]) THEN JoinGroups(results.items) ELSE results.items

\* results[0] if isinstance(results[0], list) else results
Unwrap(results) ==
    IF IsList(results.items[1]) THEN results.items[1].items ELSE results.items

\* the tools that loop over `results` itself
NoUnwrap(results) == results.items

\* x.get(k, default) of a mapping
Get(x, k, default) == IF k \in DOMAIN x THEN x[k] ELSE default

NoError == [type |-> "none"]

\* the first exception of a loop, given what each of its rounds raises
FirstError(errors) ==
    LET bad == SelectSeq(errors, LAMBDA e : e # NoError)
    IN  IF bad = <<>> THEN NoError ELSE bad[1]

\* entry.get(...) on an entry of a nested collection
EntryGet(entry) == IF entry.kind = "dict" THEN NoError ELSE AttributeError

\* the loop over x.get(k, []) that calls entry.get on each entry
EntriesGet(x, k) ==
    LET entries == Get(x, k, JList(<<>>))
    IN  IF IsList(entries) /\ Truthy(entries)
        THEN FirstError([i \in 1..Len(entries.items) |-> EntryGet(entries.items[i])]) ELSE NoError

\* ', '.join([email.get('value') for email in place.get('emails', [])])
JoinEmails(place) ==
    LET emails == Get(place, "emails", JList(<<>>))
    IN  IF IsList(emails) /\ Truthy(emails)
        THEN IF \E i \in 1..Len(emails.items) : EntryGet(emails.items[i]) # NoError
             THEN AttributeError
             ELSE IF \E i \in 1..Len(emails.items) :
                        Get(emails.items[i], "value", JNull).kind # "str"
                  THEN TypeError ELSE NoError
        ELSE NoError

\* review.get('review_text', 'No text')[:200]
ReviewText(review) ==
    IF review.kind # "dict" THEN AttributeError
    ELSE IF Get(review, "review_text", JStr("No text")).kind = "null"
         THEN TypeError ELSE NoError

\* the reviews of place_data.get('reviews_data', [])
ReviewsData(place_data) ==
    LET reviews_data == Get(place_data, "reviews_data", JList(<<>>))
    IN  IF IsList(reviews_data) /\ Truthy(reviews_data)
        THEN FirstError([i \in 1..Len(reviews_data.items) |->
                            ReviewText(reviews_data.items[i])])
        ELSE NoError

\* the exception that formatting the mapping x raises in tool op, NoError
\* when it raises none (every other field is read with .get and printed)
RecordError(op, x) ==
    CASE op = "google_maps_search"     -> JoinEmails(x)
      [] op = "google_maps_reviews"    -> ReviewsData(x)
      [] op = "google_maps_photos"     -> EntriesGet(x, "photos_data")
      [] op = "google_maps_directions" -> EntriesGet(x, "steps")
      [] op = "google_play_reviews"    -> ReviewText(x)
      [] op = "emails_and_contacts"    ->
           IF EntriesGet(x, "emails") # NoError
           THEN EntriesGet(x, "emails") ELSE EntriesGet(x, "phones")
      [] OTHER -> NoError

\* the loop that formats `records`: the first exception ends the tool, which
\* returns its error text; without one the tool returns `listing`
Blocks(op, records, listing) ==
    LET raised == FirstError([i \in 1..Len(records) |-> RecordError(op, records[i])])
    IN  IF raised = NoError THEN listing ELSE ErrorText(raised)

Format_google_maps_search(results, limit) ==
    IF ~Truthy(results) THEN NoResults
    ELSE IF IsList(results) /\ Len(results.items) > 0
         THEN LET places == Unwrap(results)
                  shown  == SliceTo(places, limit)
              IN  Blocks("google_maps_search", Dicts(shown),
                         Listing(Some(Len(places)), Dicts(shown), DictPositions(shown)))
         ELSE RawDump(results)

\* a slip of google_maps_reviews: results that are no list printed after the
\* header, as google_maps_search does
Format_google_maps_reviews_dump(results) ==
    IF ~Truthy(results) THEN NoResults
    ELSE IF IsList(results)
         THEN Blocks("google_maps_reviews", Dicts(NoUnwrap(results)),
                     Listing(None, Dicts(NoUnwrap(results)), <<>>))
         ELSE RawDump(results)

Format_google_maps_reviews(results) ==
    IF ~Truthy(results) THEN NoResults
    ELSE IF IsList(results)
         THEN Blocks("google_maps_reviews", Dicts(NoUnwrap(results)),
                     Listing(None, Dicts(NoUnwrap(results)), <<>>))
         ELSE Listing(None, <<>>, <<>>)

Format_google_maps_photos(results) ==
    IF ~Truthy(results) THEN NoResults
    ELSE IF IsList(results)
         THEN Blocks("google_maps_photos", Dicts(NoUnwrap(results)),
                     Listing(None, Dicts(NoUnwrap(results)), <<>>))
         ELSE Listing(None, <<>>, <<>>)

Format_google_maps_directions(results) ==
    IF ~Truthy(results) THEN NoResults
    ELSE IF IsList(results)
         THEN Blocks("google_maps_directions", Dicts(NoUnwrap(results)),
                     Listing(None, Dicts(NoUnwrap(results)), <<>>))
         ELSE Listing(None, <<>>, <<>>)

Format_google_search(results) ==
    IF ~Truthy(results) THEN NoResults
    ELSE IF IsList(results) /\ Len(results.items) > 0
         THEN LET search_results == Unwrap(results)
              IN  Blocks("google_search", Dicts(search_results),
                         Listing(None, Dicts(search_results),
                                 DictPositions(search_results)))
         ELSE RawDump(results)

Format_google_search_news(results) ==
    IF ~Truthy(results) THEN NoResults
    ELSE IF IsList(results) /\ Len(results.items) > 0
         THEN LET news_results == Unwrap(results)
              IN  Blocks("google_search_news", Dicts(news_results),
                         Listing(None, Dicts(news_results), DictPositions(news_results)))
         ELSE RawDump(results)

Format_google_play_reviews(results) ==
    IF ~Truthy(results) THEN NoResults
    ELSE IF IsList(results) /\ Len(results.items) > 0
         THEN LET reviews == Unwrap(results)
              IN  Blocks("google_play_reviews", Dicts(reviews),
                         Listing(IF reviews # <<>> /\ IsDict(reviews[1])
                                   THEN Some(Len(reviews)) ELSE None,
                                 Dicts(reviews), DictPositions(reviews)))
         ELSE RawDump(results)

Format_emails_and_contacts(results) ==
    IF ~Truthy(results) THEN NoResults
    ELSE IF IsList(results)
         THEN Blocks("emails_and_contacts", Dicts(NoUnwrap(results)),
                     Listing(None, Dicts(NoUnwrap(results)), <<>>))
         ELSE Listing(None, <<>>, <<>>)

\* the part of a tool function after client.<op>(...) has returned `results`
Format(op, args, results) ==
    CASE op = "google_maps_search"     -> Format_google_maps_search(results, args.limit)
      [] op = "google_maps_reviews"    -> Format_google_maps_reviews(results)
      [] op = "google_maps_photos"     -> Format_google_maps_photos(results)
      [] op = "google_maps_directions" -> Format_google_maps_directions(results)
      [] op = "google_search"          -> Format_google_search(results)
      [] op = "google_search_news"     -> Format_google_search_news(results)
      [] op = "google_play_reviews"    -> Format_google_play_reviews(results)
      [] op = "emails_and_contacts"    -> Format_emails_and_contacts(results)

\* a slip of the tool function: the client call made outside the try, so
\* that its failure leaves the tool as an exception
ToolOutput_uncaught(op, args, result) ==
    IF result.kind = "raise" THEN [kind |-> "raised", exc |-> result.exc]
    ELSE Format(op, args, result.value)

\* try: ... except Exception as e: return f"Error ...: {str(e)}"
ToolOutput(op, args, result) ==
    IF result.kind = "raise" THEN ErrorText(result.exc)
    ELSE Format(op, args, result.value)

(***************************************************************************)
(* Inputs: what callers submit and what the remote service answers.        *)
(***************************************************************************)
CallIds == {1}

QueryList(n) == [i \in 1..n |-> IF i % 2 = 1 THEN "qa" ELSE "qb"]

QueryLens == (0..2) \cup (10..MaxQueries)

QueryInputs ==
    {[kind |-> "str", s |-> "qa"]}
      \cup {[kind |-> "list", items |-> QueryList(n)] : n \in QueryLens}

Limits == (-1..MaxLimit) \cup {20}

ReviewsLimits == {-1, 0, 10} \cup (499..MaxReviewsLimit)

Regions == {None, Some(""), Some("US")}

Timestamps == {None, Some(0), Some(1700)}

Enrichments == {None, Some(<<>>), Some(<<"domains_service">>)}

StatusCodes == {199, 200, 299, 300, 404}

\* a flat sequence of n mappings
Flat(n) == [i \in 1..n |-> JDict(i)]

\* a mapping of a nested collection, with no fields
Entry == [kind |-> "dict"]

\* records with an irregularity: a null field, a nested entry that is no
\* mapping or lacks its field, a null review text
Irregular ==
    {[kind |-> "dict", id |-> 2, name |-> JNull],
     [kind |-> "dict", id |-> 2, emails |-> JList(<<JStr("a@b.c")>>)],
     [kind |-> "dict", id |-> 2, emails |-> JList(<<Entry>>)],
     [kind |-> "dict", id |-> 2, review_text |-> JNull],
     [kind |-> "dict", id |-> 2,
      reviews_data |-> JList(<<[kind |-> "dict", review_text |-> JNull]>>)],
     [kind |-> "dict", id |-> 2, photos_data |-> JList(<<JStr("x")>>)],
     [kind |-> "dict", id |-> 2, steps |-> JList(<<JStr("x")>>)]}

Payloads ==
    {JList(Flat(n)) : n \in 0..MaxRecords}
      \cup {JList(<<JList(Flat(n))>>) : n \in 0..MaxRecords}
      \cup {JList(<<JList(Flat(2)), JList(<<JDict(3)>>)>>),
            JList(<<JList(<<>>), JList(<<JDict(3)>>)>>),
            JList(<<JList(Flat(1)), JList(<<JDict(2)>>), JList(<<JDict(3)>>)>>),
            JList(<<JDict(1), JStr("x"), JDict(2)>>),
            JList(<<JList(<<JDict(1), JStr("x"), JDict(2)>>)>>),
            JList(<<JDict(1), JList(<<JDict(2)>>)>>),
            JNull, JStr("x")}
      \cup {JList(<<JDict(1), x, JDict(3)>>) : x \in Irregular}

Texts ==
    {RawText("not found"), RawText(""), JList(<<>>), JObj(FALSE, JNull, ""),
     JObj(FALSE, JNull, "job-1")}
      \cup {JObj(TRUE, d, "") : d \in Payloads}

(***************************************************************************)
(* State and actions.  calls[c] is the c-th invocation of a tool function: *)
(* not yet made ("idle"), blocked in requests.get ("waiting"), returned    *)
(* ("done").                                                               *)
(***************************************************************************)
Idle == [pc |-> "idle"]

\* mcp = FastMCP("outscraper-mcp")
FastMCP(name) == [name |-> name, tools |-> {}]

\* a slip of the registration: each registration replaces the tools
mcp_tool_replacing(server, fn) == [server EXCEPT !.tools = {fn}]

\* @mcp.tool() on the function fn
mcp_tool(server, fn) == [server EXCEPT !.tools = @ \cup {fn}]

\* the functions under @mcp.tool(), in the order of the module
ToolFunctions ==
    <<"google_maps_search", "google_maps_reviews", "google_maps_photos",
      "google_maps_directions", "google_search", "google_search_news",
      "google_play_reviews", "emails_and_contacts">>

\* the module imported up to its n-th decorated function
RECURSIVE Decorated(_)
Decorated(n) ==
    IF n = 0 THEN FastMCP("outscraper-mcp")
    ELSE mcp_tool(Decorated(n - 1), ToolFunctions[n])

\* the FastMCP instance once the module is imported
Registered == Decorated(Len(ToolFunctions))

\* os.getenv(name, default) on the variable OUTSCRAPER_API_KEY
getenv(env, default) == IF env = None THEN default ELSE env[1]

\* OutscraperClient.__init__
OutscraperClient(api_key) ==
    [api_key |-> api_key,
     headers |-> ("X-API-KEY" :> api_key) @@ ("client" :> "MCP Server")]

\* the values OUTSCRAPER_API_KEY can have when the module is imported
EnvKeys == {None, Some("key-A")}

\* API_KEY = os.getenv("OUTSCRAPER_API_KEY", "api_key");
\* client = OutscraperClient(API_KEY)
Init ==
    /\ calls = [c \in CallIds |-> Idle]
    /\ environ \in EnvKeys
    /\ client = OutscraperClient(getenv(environ, "api_key"))
    /\ http = [c \in CallIds |-> Idle]
    /\ mcp = Registered

\* a slip of the request: the key read from the environment at each request
Waiting_env_key(op, query, args, plan) ==
    [pc |-> "waiting", op |-> op, query |-> query, args |-> args, plan |-> plan,
     headers |-> OutscraperClient(getenv(environ, "api_key")).headers, sent |-> 1]

\* a tool function that has run up to requests.get: one GET is on its way
Waiting(op, query, args, plan) ==
    [pc |-> "waiting", op |-> op, query |-> query, args |-> args, plan |-> plan,
     headers |-> client.headers, sent |-> 1]

google_maps_search(c) ==
    \E query \in QueryInputs, limit \in Limits, region \in Regions,
       enrichment \in Enrichments :
        /\ "google_maps_search" \in mcp.tools
        /\ calls[c].pc = "idle" /\ http[c].pc = "idle"
        /\ calls' = [calls EXCEPT ![c] =
              Waiting("google_maps_search", query,
                    [limit |-> limit, language |-> "en", region |-> region,
                     drop_duplicates |-> FALSE, enrichment |-> enrichment],
                    Client_google_maps_search(query, limit, "en", region, FALSE,
                                              enrichment))]
        /\ UNCHANGED <<environ, client, http, mcp>>

google_maps_reviews(c) ==
    \E query \in QueryInputs, reviews_limit \in ReviewsLimits, region \in Regions,
       cutoff \in Timestamps :
        /\ "google_maps_reviews" \in mcp.tools
        /\ calls[c].pc = "idle" /\ http[c].pc = "idle"
        /\ calls' = [calls EXCEPT ![c] =
              Waiting("google_maps_reviews", query,
                    [reviews_limit |-> reviews_limit, limit |-> 1, sort |-> "most_relevant",
                     language |-> "en", region |-> region, cutoff |-> cutoff],
                    Client_google_maps_reviews(query, reviews_limit, 1, "most_relevant", "en",
                                               region, cutoff))]
        /\ UNCHANGED <<environ, client, http, mcp>>

google_maps_photos(c) ==
    \E query \in QueryInputs, region \in Regions :
        /\ "google_maps_photos" \in mcp.tools
        /\ calls[c].pc = "idle" /\ http[c].pc = "idle"
        /\ calls' = [calls EXCEPT ![c] =
              Waiting("google_maps_photos", query,
                    [photos_limit |-> 20, limit |-> 1, language |-> "en", region |-> region],
                    Client_google_maps_photos(query, 20, 1, "en", region))]
        /\ UNCHANGED <<environ, client, http, mcp>>

google_maps_directions(c) ==
    \E query \in QueryInputs, departure_time \in Timestamps :
        /\ "google_maps_directions" \in mcp.tools
        /\ calls[c].pc = "idle" /\ http[c].pc = "idle"
        /\ calls' = [calls EXCEPT ![c] =
              Waiting("google_maps_directions", query,
                    [travel_mode |-> "driving", departure_time |-> departure_time,
                     language |-> "en"],
                    Client_google_maps_directions(query, "driving", departure_time, "en"))]
        /\ UNCHANGED <<environ, client, http, mcp>>

google_search(c) ==
    \E query \in QueryInputs, region \in Regions :
        /\ "google_search" \in mcp.tools
        /\ calls[c].pc = "idle" /\ http[c].pc = "idle"
        /\ calls' = [calls EXCEPT ![c] =
              Waiting("google_search", query,
                    [pages_per_query |-> 1, language |-> "en", region |-> region],
                    Client_google_search(query, 1, "en", region))]
        /\ UNCHANGED <<environ, client, http, mcp>>

google_search_news(c) ==
    \E query \in QueryInputs, region \in Regions, tbs \in {None, Some("qdr:d")} :
        /\ "google_search_news" \in mcp.tools
        /\ calls[c].pc = "idle" /\ http[c].pc = "idle"
        /\ calls' = [calls EXCEPT ![c] =
              Waiting("google_search_news", query,
                    [pages_per_query |-> 1, language |-> "en", region |-> region, tbs |-> tbs],
                    Client_google_search_news(query, 1, "en", region, tbs))]
        /\ UNCHANGED <<environ, client, http, mcp>>

google_play_reviews(c) ==
    \E query \in QueryInputs, reviews_limit \in ReviewsLimits :
        /\ "google_play_reviews" \in mcp.tools
        /\ calls[c].pc = "idle" /\ http[c].pc = "idle"
        /\ calls' = [calls EXCEPT ![c] =
              Waiting("google_play_reviews", query,
                    [reviews_limit |-> reviews_limit, sort |-> "most_relevant",
                     language |-> "en"],
                    Client_google_play_reviews(query, reviews_limit, "most_relevant", "en"))]
        /\ UNCHANGED <<environ, client, http, mcp>>

emails_and_contacts(c) ==
    \E query \in QueryInputs :
        /\ "emails_and_contacts" \in mcp.tools
        /\ calls[c].pc = "idle" /\ http[c].pc = "idle"
        /\ calls' = [calls EXCEPT ![c] =
              Waiting("emails_and_contacts", query, <<>>,
                    Client_emails_and_contacts(query))]
        /\ UNCHANGED <<environ, client, http, mcp>>

\* a tool blocked in requests.get has the remote answer `response`:
\* _handle_response and the rest of the tool function, run to its return
Returned(call, response) ==
    LET result == handle_response(response, call.plan.wait_async)
    IN  [pc |-> "done", op |-> call.op, query |-> call.query, args |-> call.args,
         plan |-> call.plan, headers |-> call.headers, sent |-> call.sent,
         response |-> response, result |-> result,
         output |-> ToolOutput(call.op, call.args, result)]

\* the answer of the HTTP wrapper to a POST /mcp whose body had the `tool`
\* value tool (None when it had none)
Replied(tool, status_code, body) ==
    [pc |-> "replied", tool |-> tool, status_code |-> status_code, body |-> body]

\* a POST /mcp that runs a tool function, blocked in its requests.get
Executing(tool) == [pc |-> "executing", tool |-> tool]

\* a slip of the round trip: a rejected request is issued a second time
Complete_retry(c) ==
    /\ calls[c].pc = "waiting"
    /\ \E status_code \in StatusCodes, text \in Texts :
         LET response == [status_code |-> status_code, text |-> text]
             call     == IF IsSuccess(status_code) THEN calls[c]
                         ELSE [calls[c] EXCEPT !.sent = @ + 1]
             done     == Returned(call, response)
         IN  /\ calls' = [calls EXCEPT ![c] = done]
             /\ http' = IF http[c].pc = "executing"
                        THEN [http EXCEPT ![c] = Replied(http[c].tool, 200, done.output)]
                        ELSE http
    /\ UNCHANGED <<environ, client, mcp>>

\* requests.get returns `response`; _handle_response and the rest of the tool
\* function run to the tool's return; a tool run by POST /mcp is answered
\* with {"result": <the tool's text>}
Complete(c) ==
    /\ calls[c].pc = "waiting"
    /\ \E status_code \in StatusCodes, text \in Texts :
         LET response == [status_code |-> status_code, text |-> text]
             done     == Returned(calls[c], response)
         IN  /\ calls' = [calls EXCEPT ![c] = done]
             /\ http' = IF http[c].pc = "executing"
                        THEN [http EXCEPT ![c] = Replied(http[c].tool, 200, done.output)]
                        ELSE http
    /\ UNCHANGED <<environ, client, mcp>>

\* the apiKey value among the query parameters of a request to /mcp
ApiKeyParams == {None, Some(""), Some("key-B")}

\* the `tool` value of the body of a POST /mcp
PostTools ==
    {None, Some(""), Some("no_such_tool")}
      \cup {Some(ToolFunctions[i]) : i \in DOMAIN ToolFunctions}

\* the `arguments` value of the body of a POST /mcp
PostArguments ==
    {<<>>,
     [query |-> JStr("qa")],
     [query |-> JStr("qa"), limit |-> 2],
     [query |-> JList(QueryList(MaxQueries))]}

\* if config.get("apiKey"): os.environ["OUTSCRAPER_API_KEY"] = config["apiKey"]
SetApiKey(apiKey) == IF TruthyStr(apiKey) THEN apiKey ELSE environ

\* arguments.get(k, default): a parameter of a tool function called with
\* **arguments
Argument(arguments, k, default) ==
    IF k \in DOMAIN arguments THEN arguments[k] ELSE default

HTTPException(status_code, detail) ==
    [type |-> "HTTPException", status_code |-> status_code, detail |-> detail]

ValueError(message, name) == [type |-> "ValueError", message |-> message, name |-> name]

\* except Exception as e: raise HTTPException(status_code=500, detail=str(e))
InternalError(tool, e) == Replied(tool, 500, [kind |-> "detail", exc |-> e])

\* the query argument decoded from the JSON body
QueryInput(j) == IF j.kind = "str" THEN j ELSE [kind |-> "list", items |-> j.items]

\* a slip of the dispatch: every tool name it runs goes to google_maps_search
ExecuteTool_search_only(tool_name, arguments) ==
    LET query == QueryInput(arguments.query)
        limit == Argument(arguments, "limit", 20)
    IN  Waiting("google_maps_search", query,
                [limit |-> limit, language |-> "en", region |-> None,
                 drop_duplicates |-> FALSE, enrichment |-> None],
                Client_google_maps_search(query, limit, "en", None, FALSE, None))

\* _execute_tool on a tool it runs: the tool function called with **arguments
ExecuteTool(tool_name, arguments) ==
    LET query == QueryInput(arguments.query)
    IN  IF tool_name = "google_maps_search"
        THEN LET limit == Argument(arguments, "limit", 20)
             IN  Waiting("google_maps_search", query,
                         [limit |-> limit, language |-> "en", region |-> None,
                          drop_duplicates |-> FALSE, enrichment |-> None],
                         Client_google_maps_search(query, limit, "en", None,
                                                   FALSE, None))
        ELSE LET limit == Argument(arguments, "limit", 1)
             IN  Waiting("google_maps_reviews", query,
                         [reviews_limit |-> 10, limit |-> limit, sort |-> "most_relevant",
                          language |-> "en", region |-> None, cutoff |-> None],
                         Client_google_maps_reviews(query, 10, limit,
                                                    "most_relevant", "en", None, None))

\* the names under "tools" in the answer of GET /mcp
ListedTools == {"google_maps_search", "google_maps_reviews"}

\* GET /mcp: the answer is the fixed server info with ListedTools
mcp_get ==
    \E apiKey \in ApiKeyParams :
        /\ environ' = SetApiKey(apiKey)
        /\ UNCHANGED <<calls, client, http, mcp>>

\* POST /mcp, up to the reply or to the requests.get of the tool it runs
mcp_post(c) ==
    \E apiKey \in ApiKeyParams, tool \in PostTools, arguments \in PostArguments :
        /\ calls[c].pc = "idle" /\ http[c].pc = "idle"
        /\ environ' = SetApiKey(apiKey)
        /\ UNCHANGED <<client, mcp>>
        /\ IF ~TruthyStr(tool)
           THEN /\ http' = [http EXCEPT ![c] =
                      InternalError(tool,
                          HTTPException(400, "Missing 'tool' in request body"))]
                /\ calls' = calls
           ELSE IF tool[1] \notin {"google_maps_search", "google_maps_reviews"}
           THEN /\ http' = [http EXCEPT ![c] =
                      InternalError(tool, ValueError("Unknown tool", tool[1]))]
                /\ calls' = calls
           ELSE IF "query" \notin DOMAIN arguments
           THEN /\ http' = [http EXCEPT ![c] = InternalError(tool, TypeError)]
                /\ calls' = calls
           ELSE /\ http' = [http EXCEPT ![c] = Executing(tool)]
                /\ calls' = [calls EXCEPT ![c] = ExecuteTool(tool[1], arguments)]

Next ==
    \E c \in CallIds :
        \/ google_maps_search(c)
        \/ google_maps_reviews(c)
        \/ google_maps_photos(c)
        \/ google_maps_directions(c)
        \/ google_search(c)
        \/ google_search_news(c)
        \/ google_play_reviews(c)
        \/ emails_and_contacts(c)
        \/ Complete(c)

Spec == Init /\ [][Next]_vars

(***************************************************************************)
(* The HTTP wrapper: two tool calls in flight at a time, interleaved with  *)
(* GET /mcp and POST /mcp.  The inputs and the remote answers followed are *)
(* a few of each kind, so that all interleavings of two calls are covered. *)
(***************************************************************************)
ServerCallIds == {1, 2}

InitServer ==
    /\ calls = [c \in ServerCallIds |-> Idle]
    /\ environ \in EnvKeys
    /\ client = OutscraperClient(getenv(environ, "api_key"))
    /\ http = [c \in ServerCallIds |-> Idle]
    /\ mcp = Registered

\* the remote answers followed: one accepted, one rejected
ServerResponses ==
    {[status_code |-> 200, text |-> JObj(TRUE, JList(Flat(1)), "")],
     [status_code |-> 404, text |-> RawText("not found")]}

ServerArgs(args) ==
    \A k \in DOMAIN args :
        CASE k = "limit" -> args[k] \in {1, 20}
          [] k = "reviews_limit" -> args[k] = 10
          [] k \in {"region", "cutoff", "enrichment", "departure_time", "tbs"} ->
               args[k] = None
          [] OTHER -> TRUE

\* the tool calls and remote answers followed under two-call interleaving
Followed(call) ==
    /\ call.pc # "idle" =>
         /\ Len(Queries(call.query)) \in {1, MaxQueries}
         /\ ServerArgs(call.args)
    /\ call.pc = "done" => call.response \in ServerResponses

NextServer ==
    \/ mcp_get
    \/ \E c \in ServerCallIds : mcp_post(c)
    \/ \E c \in ServerCallIds : google_maps_search(c) /\ Followed(calls'[c])
    \/ \E c \in ServerCallIds : google_maps_reviews(c) /\ Followed(calls'[c])
    \/ \E c \in ServerCallIds : google_maps_photos(c) /\ Followed(calls'[c])
    \/ \E c \in ServerCallIds : google_maps_directions(c) /\ Followed(calls'[c])
    \/ \E c \in ServerCallIds : google_search(c) /\ Followed(calls'[c])
    \/ \E c \in ServerCallIds : google_search_news(c) /\ Followed(calls'[c])
    \/ \E c \in ServerCallIds : google_play_reviews(c) /\ Followed(calls'[c])
    \/ \E c \in ServerCallIds : emails_and_contacts(c) /\ Followed(calls'[c])
    \/ \E c \in ServerCallIds : Complete(c) /\ Followed(calls'[c])

SpecServer == InitServer /\ [][NextServer]_vars

(***************************************************************************)
(* Vocabulary of the properties.                                           *)
(***************************************************************************)
Started(c) == calls[c].pc # "idle"

Done(c) == calls[c].pc = "done"

\* the number of queries a query input stands for
QueryCount(query) == IF query.kind = "str" THEN 1 ELSE Len(query.items)

\* the status code is 2xx
Is2xx(status_code) == status_code >= 200 /\ status_code < 300

\* the client call ended in the failure raised for a rejected request
RequestFailure(c) ==
    calls[c].result.kind = "raise" /\ calls[c].result.exc.type = "Exception"

\* the six operations other than PlaceSearch and PlaceReviews
SyncOnlyOps ==
    {"google_maps_photos", "google_maps_directions", "google_search",
     "google_search_news", "google_play_reviews", "emails_and_contacts"}

\* the `data` field of a decoded body, an empty sequence when it has none
DataOrEmpty(body) == IF body.has_data THEN body.data ELSE [kind |-> "list", items |-> <<>>]

\* a 2xx answer whose body decodes to a JSON object
ObjectAnswer(c) ==
    /\ Done(c)
    /\ Is2xx(calls[c].response.status_code)
    /\ calls[c].response.text.kind = "obj"

(***************************************************************************)
(* C1: google_maps_search selects Async mode exactly when it is given more *)
(* than 10 queries and a limit greater than 1; in every other case Sync.   *)
(***************************************************************************)
C1_SearchAsyncIff ==
    \A c \in CallIds :
        Started(c) /\ calls[c].op = "google_maps_search" =>
            /\ calls[c].plan.wait_async
                 <=> (QueryCount(calls[c].query) > 10 /\ calls[c].args.limit > 1)
            /\ calls[c].plan.params.async = calls[c].plan.wait_async

\* 11 queries with limit 2 were sent in Async mode and answered
C1_Witness ==
    \E c \in CallIds :
        /\ Done(c) /\ calls[c].op = "google_maps_search"
        /\ QueryCount(calls[c].query) = 11 /\ calls[c].args.limit = 2
        /\ calls[c].plan.wait_async

(***************************************************************************)
(* C2: google_maps_reviews selects Async mode exactly when reviews_limit   *)
(* is above 499, or is 0, or more than 10 queries are given.               *)
(***************************************************************************)
C2_ReviewsAsyncIff ==
    \A c \in CallIds :
        Started(c) /\ calls[c].op = "google_maps_reviews" =>
            /\ calls[c].plan.wait_async
                 <=> \/ calls[c].args.reviews_limit > 499
                     \/ calls[c].args.reviews_limit = 0
                     \/ QueryCount(calls[c].query) > 10
            /\ calls[c].plan.params.async = calls[c].plan.wait_async

\* reviews_limit 500 for a single query was sent in Async mode and answered
C2_Witness ==
    \E c \in CallIds :
        /\ Done(c) /\ calls[c].op = "google_maps_reviews"
        /\ QueryCount(calls[c].query) = 1 /\ calls[c].args.reviews_limit = 500
        /\ calls[c].plan.wait_async

(***************************************************************************)
(* C3: the six other operations never select Async mode, whatever the      *)
(* number of queries, and their 2xx answers are read with the Sync rule:   *)
(* the `data` field of the body, not the body.                             *)
(***************************************************************************)
C3_OthersAlwaysSync ==
    \A c \in CallIds :
        Started(c) /\ calls[c].op \in SyncOnlyOps =>
            /\ ~calls[c].plan.wait_async
            /\ "async" \notin DOMAIN calls[c].plan.params
            /\ ObjectAnswer(c) =>
                 calls[c].result = [kind |-> "return",
                                    value |-> DataOrEmpty(calls[c].response.text)]

\* google_maps_photos with 11 queries got a 2xx answer and returned its data
C3_Witness ==
    \E c \in CallIds :
        /\ ObjectAnswer(c) /\ calls[c].op = "google_maps_photos"
        /\ QueryCount(calls[c].query) = 11
        /\ calls[c].response.text.has_data
        /\ calls[c].result.kind = "return"
        /\ calls[c].result.value = calls[c].response.text.data

(***************************************************************************)
(* C4: a response is a failure exactly when its status code is outside     *)
(* 200..299, in Sync mode and in Async mode alike.                         *)
(***************************************************************************)
C4_SuccessIff2xx ==
    \A c \in CallIds :
        Done(c) => (RequestFailure(c) <=> ~Is2xx(calls[c].response.status_code))

\* status 299 was a success in Async mode
C4_Witness ==
    \E c \in CallIds :
        /\ Done(c) /\ calls[c].plan.wait_async
        /\ calls[c].response.status_code = 299
        /\ ~RequestFailure(c)

(***************************************************************************)
(* C5: a non-2xx response ends the call in a failure that carries the      *)
(* status code and the body text; the tool reports that failure and        *)
(* delivers no records and no "no results" answer.                         *)
(***************************************************************************)
C5_FailureCarriesStatusAndBody ==
    \A c \in CallIds :
        Done(c) /\ ~Is2xx(calls[c].response.status_code) =>
            /\ calls[c].result.kind = "raise"
            /\ calls[c].result.exc.type = "Exception"
            /\ calls[c].result.exc.status_code = calls[c].response.status_code
            /\ calls[c].result.exc.text = calls[c].response.text
            /\ calls[c].output.kind = "error"
            /\ calls[c].output.exc = calls[c].result.exc

\* status 404 with body "not found" ended in a failure carrying both
C5_Witness ==
    \E c \in CallIds :
        /\ Done(c)
        /\ calls[c].response = [status_code |-> 404,
                                text |-> [kind |-> "text", raw |-> "not found"]]
        /\ calls[c].output.kind = "error"
        /\ calls[c].output.exc.status_code = 404
        /\ calls[c].output.exc.text.raw = "not found"

(***************************************************************************)
(* C6: in Sync mode a 2xx answer returns the value of the body's `data`    *)
(* field when the body has one, and an empty sequence when it has none.    *)
(***************************************************************************)
C6_SyncReturnsData ==
    \A c \in CallIds :
        ObjectAnswer(c) /\ ~calls[c].plan.wait_async =>
            /\ calls[c].result.kind = "return"
            /\ calls[c].response.text.has_data =>
                 calls[c].result.value = calls[c].response.text.data
            /\ ~calls[c].response.text.has_data =>
                 calls[c].result.value = [kind |-> "list", items |-> <<>>]

\* a Sync 2xx answer without `data` returned the empty sequence
C6_Witness ==
    \E c \in CallIds :
        /\ ObjectAnswer(c) /\ ~calls[c].plan.wait_async
        /\ ~calls[c].response.text.has_data
        /\ calls[c].result = [kind |-> "return", value |-> [kind |-> "list", items |-> <<>>]]

(***************************************************************************)
(* C7: in Async mode a 2xx answer is returned as decoded, `data` not       *)
(* extracted, and the call has issued that one request only.               *)
(***************************************************************************)
C7_AsyncReturnsBodyVerbatim ==
    \A c \in CallIds :
        /\ Started(c) => calls[c].sent = 1
        /\ ( /\ Done(c) /\ calls[c].plan.wait_async
             /\ Is2xx(calls[c].response.status_code)
             /\ calls[c].response.text.kind # "text" ) =>
              calls[c].result = [kind |-> "return", value |-> calls[c].response.text]

\* an Async google_maps_reviews call returned the job envelope it received
C7_Witness ==
    \E c \in CallIds :
        /\ Done(c) /\ calls[c].op = "google_maps_reviews" /\ calls[c].plan.wait_async
        /\ calls[c].response.status_code = 200
        /\ calls[c].response.text.kind = "obj" /\ calls[c].response.text.job = "job-1"
        /\ calls[c].result.kind = "return"
        /\ calls[c].result.value = calls[c].response.text
        /\ calls[c].sent = 1

(***************************************************************************)
(* Vocabulary of the properties about the records a tool delivers.         *)
(***************************************************************************)
\* the four tools whose code looks for the wrapped shape
UnwrappingOps ==
    {"google_maps_search", "google_search", "google_search_news", "google_play_reviews"}

\* a Sync 2xx answer whose `data` is a sequence
SyncListAnswer(c) ==
    /\ ObjectAnswer(c)
    /\ ~calls[c].plan.wait_async
    /\ calls[c].response.text.has_data
    /\ calls[c].response.text.data.kind = "list"

\* the decoded payload of such an answer
Payload(c) == calls[c].response.text.data.items

\* the mappings of a sequence, in its order
Mappings(s) == SelectSeq(s, LAMBDA x : x.kind = "dict")

\* a non-empty sequence whose first element is itself a sequence
Wrapped(p) == p # <<>> /\ p[1].kind = "list"

\* the wrapped shape unwrapped by one level, any other payload as it is
OneLevelUnwrapped(p) == IF Wrapped(p) THEN p[1].items ELSE p

\* every element of the sequence is a mapping
AllMappings(p) == \A i \in 1..Len(p) : p[i].kind = "dict"

\* the first n entries of a sequence, none when n is not positive
FirstN(s, n) == IF n <= 0 THEN <<>> ELSE SubSeq(s, 1, IF n < Len(s) THEN n ELSE Len(s))

\* the records the tool has formatted, in the order of its text
Delivered(c) ==
    IF calls[c].output.kind = "records" THEN calls[c].output.delivered ELSE <<>>

\* a Sync 2xx answer whose `data` is a sequence, formatted to the end: no
\* record of it made the tool fail (C20)
ListedAnswer(c) == SyncListAnswer(c) /\ calls[c].output.kind # "error"

\* the result cap of the call does not cut a sequence of n records
NotCut(c, n) == calls[c].op = "google_maps_search" => calls[c].args.limit >= n

C9_FlatPayloadUnchanged ==
    \A c \in CallIds :
        ListedAnswer(c) /\ AllMappings(Payload(c)) =>
            /\ NotCut(c, Len(Payload(c))) => Delivered(c) = Payload(c)
            /\ calls[c].op = "google_maps_search" /\ Payload(c) # <<>> =>
                 calls[c].output.count = <<Len(Payload(c))>>

\* google_maps_search with limit 3 was answered 3 mappings and delivered them
C9_Witness ==
    \E c \in CallIds :
        /\ SyncListAnswer(c) /\ calls[c].op = "google_maps_search"
        /\ calls[c].args.limit = 3
        /\ AllMappings(Payload(c)) /\ Len(Payload(c)) = 3
        /\ Delivered(c) = Payload(c)

(***************************************************************************)
(* C10 as claimed: google_maps_search delivers the first `limit` entries   *)
(* of the unwrapped sequence, in order, when limit is below its length,    *)
(* and all of them otherwise, for every integer limit.                     *)
(***************************************************************************)
C10_FirstLimitEntries ==
    \A c \in CallIds :
        ListedAnswer(c) /\ calls[c].op = "google_maps_search" =>
            LET records == OneLevelUnwrapped(Payload(c))
                limit   == calls[c].args.limit
            IN  Delivered(c) = Mappings(IF limit < Len(records)
                                          THEN FirstN(records, limit) ELSE records)

\* the same statement for the limits that are not negative
C10_FirstLimitEntriesNonNegative ==
    \A c \in CallIds :
        ( /\ ListedAnswer(c) /\ calls[c].op = "google_maps_search"
          /\ calls[c].args.limit >= 0 ) =>
            LET records == OneLevelUnwrapped(Payload(c))
                limit   == calls[c].args.limit
            IN  Delivered(c) = Mappings(IF limit < Len(records)
                                          THEN FirstN(records, limit) ELSE records)

(***************************************************************************)
(* C11: an element of the record sequence that is no mapping is passed     *)
(* over and never makes the call fail, every mapping is still delivered,   *)
(* and a record sequence without mappings ends in an answer without        *)
(* records, not in an error.                                               *)
(***************************************************************************)
\* the sequence the tool of call c loops over
RecordSequence(c) ==
    IF calls[c].op \in UnwrappingOps
    THEN OneLevelUnwrapped(Payload(c)) ELSE Payload(c)

\* a mapping with nothing but its identity: every optional field is missing
Plain(x) == DOMAIN x = {"kind", "id"}

C11_NonMappingsSkipped ==
    \A c \in DOMAIN calls :
        SyncListAnswer(c) /\ NotCut(c, Len(RecordSequence(c))) =>
            /\ calls[c].output.kind = "error" =>
                 \E i \in 1..Len(RecordSequence(c)) :
                     /\ RecordSequence(c)[i].kind = "dict"
                     /\ ~Plain(RecordSequence(c)[i])
            /\ calls[c].output.kind # "error" =>
                 Delivered(c) = Mappings(RecordSequence(c))
            /\ Mappings(RecordSequence(c)) = <<>> =>
                 calls[c].output.kind \in {"none", "records"} /\ Delivered(c) = <<>>

\* google_play_reviews was answered [{1}, "x", {2}] and delivered {1}, {2}
C11_Witness ==
    \E c \in DOMAIN calls :
        /\ SyncListAnswer(c) /\ calls[c].op = "google_play_reviews"
        /\ Len(Payload(c)) = 3 /\ Payload(c)[2].kind = "str"
        /\ calls[c].output.kind = "records"
        /\ Delivered(c) = <<Payload(c)[1], Payload(c)[3]>>

(***************************************************************************)
(* C12 as claimed: in Sync mode a 2xx answer whose body is empty, is no    *)
(* mapping, has no `data` field or has a `data` field that is no sequence  *)
(* ends in an answer without records, never in a failure.                  *)
(***************************************************************************)
\* the body of a 2xx answer lacks the top-level shape of Sync mode
LacksSyncShape(text) ==
    \/ text.kind = "text" /\ text.raw = ""
    \/ text.kind \notin {"text", "obj"}
    \/ text.kind = "obj" /\ ~text.has_data
    \/ text.kind = "obj" /\ text.has_data /\ text.data.kind # "list"

C12_MalformedBodyIsNoResults ==
    \A c \in DOMAIN calls :
        ( /\ Done(c) /\ ~calls[c].plan.wait_async
          /\ Is2xx(calls[c].response.status_code)
          /\ LacksSyncShape(calls[c].response.text) ) =>
            /\ calls[c].result.kind = "return"
            /\ calls[c].output.kind # "error"
            /\ Delivered(c) = <<>>

\* the same statement for the bodies that decode to a mapping
C12_MalformedMappingBodyIsNoResults ==
    \A c \in DOMAIN calls :
        ( /\ Done(c) /\ ~calls[c].plan.wait_async
          /\ Is2xx(calls[c].response.status_code)
          /\ LacksSyncShape(calls[c].response.text)
          /\ calls[c].response.text.kind = "obj" ) =>
            /\ calls[c].result.kind = "return"
            /\ calls[c].output.kind # "error"
            /\ Delivered(c) = <<>>

(***************************************************************************)
(* C13: an optional parameter (region, cutoff, enrichment, departureTime,  *)
(* tbs) is a key of the outbound parameters only when the caller supplied  *)
(* it, and then with the value supplied, which is neither null nor empty;  *)
(* when it is not supplied the key is absent.                              *)
(***************************************************************************)
\* the optional keys of the outbound parameters and the argument of each
OptionalKeys ==
    [region |-> "region", cutoff |-> "cutoff", enrichment |-> "enrichment",
     departureTime |-> "departure_time", tbs |-> "tbs"]

\* the Optional argument of the call that key k carries, None when the
\* operation has no such argument
Supplied(c, k) ==
    IF OptionalKeys[k] \in DOMAIN calls[c].args
    THEN calls[c].args[OptionalKeys[k]] ELSE <<>>

\* the empty value of the type of key k
EmptyValue(k) ==
    CASE k \in {"region", "tbs"} -> ""
      [] k \in {"cutoff", "departureTime"} -> 0
      [] OTHER -> <<>>

C13_OptionalKeysOnlyWhenSupplied ==
    \A c \in DOMAIN calls :
        Started(c) =>
            \A k \in DOMAIN OptionalKeys :
                /\ k \in DOMAIN calls[c].plan.params =>
                     /\ Supplied(c, k) # <<>>
                     /\ calls[c].plan.params[k] = Supplied(c, k)[1]
                     /\ calls[c].plan.params[k] # EmptyValue(k)
                /\ Supplied(c, k) = <<>> => k \notin DOMAIN calls[c].plan.params

\* google_maps_search was called without a region and sent no region key,
\* with an enrichment and sent it
C13_Witness ==
    \E c \in DOMAIN calls :
        /\ Done(c) /\ calls[c].op = "google_maps_search"
        /\ calls[c].args.region = <<>>
        /\ "region" \notin DOMAIN calls[c].plan.params
        /\ calls[c].args.enrichment # <<>>
        /\ "enrichment" \in DOMAIN calls[c].plan.params

(***************************************************************************)
(* C14: for every operation and in both modes the outbound `query`         *)
(* parameter is a sequence: a single string q is sent as [q], a sequence   *)
(* of strings is sent with the same elements in the same order.            *)
(***************************************************************************)
C14_QueryAlwaysSequence ==
    \A c \in DOMAIN calls :
        Started(c) =>
            LET sent_q == calls[c].plan.params.query
            IN  /\ DOMAIN sent_q = 1..Len(sent_q)
                /\ calls[c].query.kind = "str" =>
                     Len(sent_q) = 1 /\ sent_q[1] = calls[c].query.s
                /\ calls[c].query.kind = "list" =>
                     /\ Len(sent_q) = Len(calls[c].query.items)
                     /\ \A i \in 1..Len(sent_q) : sent_q[i] = calls[c].query.items[i]

\* an asynchronous search sent its eleven queries, repeated ones included,
\* in the order given
C14_Witness ==
    \E c \in DOMAIN calls :
        /\ Done(c)
        /\ calls[c].plan.wait_async
        /\ calls[c].query.kind = "list"
        /\ Len(calls[c].plan.params.query) > 10
        /\ calls[c].plan.params.query[1] = calls[c].plan.params.query[3]
        /\ calls[c].plan.params.query[1] # calls[c].plan.params.query[2]

(***************************************************************************)
(* C16: a call whose query input is an empty sequence of queries is        *)
(* rejected: no outbound request is issued for it, and the caller gets a   *)
(* failure that is not the failure of a rejected remote request.           *)
(***************************************************************************)
C16_EmptyQueryRejected ==
    \A c \in DOMAIN calls :
        Started(c) /\ QueryCount(calls[c].query) = 0 =>
            /\ calls[c].sent = 0
            /\ Done(c) => calls[c].output.kind = "error" /\ ~RequestFailure(c)

(***************************************************************************)
(* C17: every client call issues exactly one outbound GET and interprets   *)
(* exactly one response: whatever the status code and the mode, a call     *)
(* that has started has sent one request, its result is the interpretation *)
(* of the one response it received, and once it has returned nothing of it *)
(* changes (no retry, no poll).                                            *)
(***************************************************************************)
C17_OneRequestPerCall ==
    [][\A c \in DOMAIN calls :
           /\ calls'[c].pc # "idle" => calls'[c].sent = 1
           /\ calls'[c].pc = "done" =>
                calls'[c].result =
                    handle_response(calls'[c].response, calls'[c].plan.wait_async)
           /\ calls[c].pc = "done" => calls'[c] = calls[c]]_vars

\* a rejected request (status outside 2xx) of an asynchronous call has
\* returned, with one request sent
C17_Witness ==
    \E c \in DOMAIN calls :
        /\ Done(c)
        /\ ~Is2xx(calls[c].response.status_code)
        /\ calls[c].plan.wait_async
        /\ calls[c].sent = 1

(***************************************************************************)
(* C18: every outbound request of every operation carries X-API-KEY equal  *)
(* to the credential the module-level client was constructed with, plus    *)
(* client = 'MCP Server'; no client call and no GET or POST /mcp, with or  *)
(* without an apiKey value, changes the client or the header it sends:     *)
(* the requests only set the environment variable.                         *)
(***************************************************************************)
C18_FixedAuthHeader ==
    /\ [](\A c \in DOMAIN calls :
              Started(c) =>
                  /\ DOMAIN calls[c].headers = {"X-API-KEY", "client"}
                  /\ calls[c].headers["X-API-KEY"] = client.api_key
                  /\ calls[c].headers["client"] = "MCP Server")
    /\ [][/\ client' = client
          /\ \A c \in DOMAIN calls :
                Started(c) => calls'[c].headers = calls[c].headers]_vars

\* a request to /mcp has set the environment variable to another key, and a
\* tool run by POST /mcp has sent the key the client was constructed with
C18_Witness ==
    \E c \in DOMAIN calls :
        /\ environ = Some("key-B")
        /\ client.api_key = "key-A"
        /\ Done(c) /\ http[c].pc = "replied"
        /\ calls[c].headers["X-API-KEY"] = "key-A"

(***************************************************************************)
(* C15: mode and outbound parameters are a function of the call's own      *)
(* inputs (operation, query input, options): whatever calls and requests   *)
(* came before, successful or failed, two calls with equal inputs select   *)
(* the same mode and build the same outbound parameter mapping.            *)
(***************************************************************************)
SameInputs(c, d) ==
    /\ calls[c].op = calls[d].op
    /\ calls[c].query = calls[d].query
    /\ calls[c].args = calls[d].args

C15_PlanDependsOnInputsOnly ==
    \A c, d \in DOMAIN calls :
        Started(c) /\ Started(d) /\ SameInputs(c, d) =>
            /\ calls[c].plan.wait_async = calls[d].plan.wait_async
            /\ calls[c].plan.params = calls[d].plan.params

\* a call has failed, the environment variable has been set by a request to
\* /mcp, and a second call with the same inputs is on its way
C15_Witness ==
    \E c, d \in DOMAIN calls :
        /\ c # d
        /\ Done(c) /\ RequestFailure(c)
        /\ environ = Some("key-B")
        /\ calls[d].pc = "waiting" /\ SameInputs(c, d)
        /\ calls[d].plan = calls[c].plan

(***************************************************************************)
(* C19: calls share no mutable state.  When several calls run at the same  *)
(* time, in every interleaving each call has the mode and the result it    *)
(* has when it runs alone on the same inputs and the same remote answer    *)
(* (the mode of C1..C3, the result of C4..C7), and two calls with the same *)
(* inputs and the same answer have the same outbound parameters, result    *)
(* and output.                                                             *)
(***************************************************************************)
\* the mode of the call when it runs alone
AloneMode(c) ==
    CASE calls[c].op = "google_maps_search" ->
           QueryCount(calls[c].query) > 10 /\ calls[c].args.limit > 1
      [] calls[c].op = "google_maps_reviews" ->
           \/ calls[c].args.reviews_limit > 499
           \/ calls[c].args.reviews_limit = 0
           \/ QueryCount(calls[c].query) > 10
      [] OTHER -> FALSE

\* the result of the call when it runs alone and is answered with a status
\* outside 2xx or with a body that is a mapping
AloneResult(c) ==
    IF ~Is2xx(calls[c].response.status_code)
    THEN [kind |-> "raise",
          exc |-> [type |-> "Exception", status_code |-> calls[c].response.status_code,
                   text |-> calls[c].response.text]]
    ELSE IF AloneMode(c)
         THEN [kind |-> "return", value |-> calls[c].response.text]
         ELSE [kind |-> "return", value |-> DataOrEmpty(calls[c].response.text)]

C19_CallsIndependent ==
    /\ \A c \in DOMAIN calls :
          /\ Started(c) => calls[c].plan.wait_async = AloneMode(c)
          /\ Done(c) /\ (ObjectAnswer(c) \/ ~Is2xx(calls[c].response.status_code)) =>
               calls[c].result = AloneResult(c)
    /\ \A c, d \in DOMAIN calls :
          Started(c) /\ Started(d) /\ SameInputs(c, d) =>
              /\ calls[c].plan = calls[d].plan
              /\ Done(c) /\ Done(d) /\ calls[c].response = calls[d].response =>
                   /\ calls[c].result = calls[d].result
                   /\ calls[c].output = calls[d].output

\* a synchronous call has returned the `data` of its answer while an
\* asynchronous call of another operation was in flight
C19_Witness ==
    \E c, d \in DOMAIN calls :
        /\ c # d
        /\ calls[d].pc = "waiting" /\ calls[d].plan.wait_async
        /\ ObjectAnswer(c) /\ ~calls[c].plan.wait_async
        /\ calls[c].op # calls[d].op
        /\ calls[c].result = [kind |-> "return", value |-> calls[c].response.text.data]

(***************************************************************************)
(* C20: an irregularity inside an otherwise valid record never fails the   *)
(* whole call: for every operation, a payload holding a record with a      *)
(* missing field, a null field or a malformed entry in a nested collection *)
(* still yields the normal listing, with every record of the payload in it.*)
(***************************************************************************)
\* a record with some field beyond its identity
IrregularRecord(x) == x.kind = "dict" /\ ~Plain(x)

C20_IrregularRecordsDegrade ==
    \A c \in DOMAIN calls :
        ( /\ SyncListAnswer(c) /\ NotCut(c, Len(RecordSequence(c)))
          /\ \E i \in 1..Len(RecordSequence(c)) : IrregularRecord(RecordSequence(c)[i]) ) =>
            /\ calls[c].output.kind = "records"
            /\ Delivered(c) = Mappings(RecordSequence(c))

\* the same for the irregularities that are a null field value or a field
\* the tool of the call does not read
C20_UnreadFieldsDegrade ==
    \A c \in DOMAIN calls :
        ( /\ SyncListAnswer(c) /\ NotCut(c, Len(RecordSequence(c)))
          /\ \A i \in 1..Len(RecordSequence(c)) :
                RecordSequence(c)[i].kind = "dict" =>
                    RecordError(calls[c].op, RecordSequence(c)[i]) = NoError ) =>
            /\ calls[c].output.kind \in {"none", "records"}
            /\ Delivered(c) = Mappings(RecordSequence(c))

(***************************************************************************)
(* C21: no tool function lets an exception escape.  Whatever the client    *)
(* call ends in (a status outside 2xx, a body that does not decode, a      *)
(* payload of an unexpected shape), the tool returns a text; when the      *)
(* client call failed, the text is the tool's error message with the       *)
(* message of that failure, which for a rejected request holds the status  *)
(* code and the response body.                                             *)
(***************************************************************************)
\* the texts a tool function returns
TextKinds == {"none", "records", "raw", "error"}

C21_ToolsAlwaysReturnText ==
    \A c \in DOMAIN calls :
        Done(c) =>
            /\ calls[c].output.kind \in TextKinds
            /\ calls[c].result.kind = "raise" =>
                 /\ calls[c].output.kind = "error"
                 /\ calls[c].output.exc = calls[c].result.exc
            /\ RequestFailure(c) =>
                 /\ calls[c].output.exc.status_code = calls[c].response.status_code
                 /\ calls[c].output.exc.text = calls[c].response.text

\* emails_and_contacts was answered 200 with a body that does not decode and
\* returned its error text
C21_Witness ==
    \E c \in DOMAIN calls :
        /\ Done(c) /\ calls[c].op = "emails_and_contacts"
        /\ calls[c].response.status_code = 200
        /\ calls[c].response.text.kind = "text"
        /\ calls[c].result.kind = "raise"
        /\ calls[c].output = [kind |-> "error", exc |-> JSONDecodeError]

(***************************************************************************)
(* C22: the MCP server registers all eight tools: each of the eight        *)
(* expected names is in the set of tools the server lists, and the server  *)
(* lists no other, one tool per operation of the remote API.               *)
(***************************************************************************)
ExpectedTools ==
    {"google_maps_search", "google_maps_reviews", "google_maps_photos",
     "google_maps_directions", "google_search", "google_search_news",
     "google_play_reviews", "emails_and_contacts"}

C22_EightToolsRegistered ==
    /\ \A name \in ExpectedTools : name \in mcp.tools
    /\ Cardinality(mcp.tools) = 8
    /\ \A c \in DOMAIN calls : Started(c) => calls[c].op \in mcp.tools

\* the last tool registered, emails_and_contacts, is listed and has run
C22_Witness ==
    \E c \in DOMAIN calls :
        /\ Done(c) /\ calls[c].op = "emails_and_contacts"
        /\ "emails_and_contacts" \in mcp.tools
        /\ "google_maps_search" \in mcp.tools

(***************************************************************************)
(* C23: a POST /mcp whose body has no `tool` value (missing or empty) is   *)
(* rejected with HTTP status 400 and the detail "Missing 'tool' in request *)
(* body", and no tool is executed.                                         *)
(***************************************************************************)
\* the POST /mcp of slot c has been answered
Answered(c) == http[c].pc = "replied"

C23_MissingToolIs400 ==
    \A c \in DOMAIN http :
        Answered(c) /\ ~TruthyStr(http[c].tool) =>
            /\ http[c].status_code = 400
            /\ calls[c].pc = "idle"

\* what the code does with such a request: no tool is executed, and the
\* rejection with status 400 is the detail of an answer with status 500
C23_MissingToolIs500 ==
    \A c \in DOMAIN http :
        Answered(c) /\ ~TruthyStr(http[c].tool) =>
            /\ http[c].status_code = 500
            /\ http[c].body.exc =
                 [type |-> "HTTPException", status_code |-> 400,
                  detail |-> "Missing 'tool' in request body"]
            /\ calls[c].pc = "idle"

(***************************************************************************)
(* C24: a POST /mcp that executes google_maps_search with well-formed      *)
(* arguments while the remote API rejects the request (status outside 2xx) *)
(* is answered with HTTP status 500.                                       *)
(***************************************************************************)
C24_RemoteRejectionIs500 ==
    \A c \in DOMAIN http :
        ( /\ Answered(c) /\ http[c].tool = Some("google_maps_search")
          /\ Done(c) /\ RequestFailure(c) ) =>
            http[c].status_code = 500

\* what the code does: the answer has status 200 and carries the tool's
\* error text as its result
C24_RemoteRejectionIs200 ==
    \A c \in DOMAIN http :
        ( /\ Answered(c) /\ http[c].tool = Some("google_maps_search")
          /\ Done(c) /\ RequestFailure(c) ) =>
            /\ http[c].status_code = 200
            /\ http[c].body = [kind |-> "error", exc |-> calls[c].result.exc]

(***************************************************************************)
(* C26: discovery and execution of the HTTP front-end agree.  A POST /mcp  *)
(* naming a tool that GET /mcp lists runs the tool of that name; a POST    *)
(* naming any other tool, the six other registered tools included, runs    *)
(* nothing and fails with 'Unknown tool: <name>', answered with status 500.*)
(***************************************************************************)
\* the POST /mcp of slot c named the tool `name`
Named(c, name) == http[c].pc # "idle" /\ http[c].tool = Some(name)

\* the POST /mcp of slot c failed when the tool function was called without
\* its query
BadArguments(c) ==
    Answered(c) /\ http[c].status_code = 500 /\ http[c].body.exc.type = "TypeError"

C26_DiscoveryMatchesExecution ==
    \A c \in DOMAIN http :
        /\ \A name \in ListedTools :
              Named(c, name) /\ ~BadArguments(c) =>
                  /\ Started(c) /\ calls[c].op = name
                  /\ Answered(c) => http[c].status_code = 200
        /\ \A name \in (mcp.tools \cup {"no_such_tool"}) \ ListedTools :
              Named(c, name) =>
                  /\ Answered(c) /\ http[c].status_code = 500
                  /\ http[c].body.exc =
                       [type |-> "ValueError", message |-> "Unknown tool", name |-> name]
                  /\ calls[c].pc = "idle"
        /\ http[c].pc # "idle" /\ TruthyStr(http[c].tool) =>
              http[c].tool[1] \in mcp.tools \cup {"no_such_tool"}

\* a POST naming google_maps_reviews runs that tool while a POST naming the
\* registered tool google_play_reviews has been answered 500
C26_Witness ==
    \E c, d \in DOMAIN http :
        /\ Named(c, "google_maps_reviews")
        /\ Started(c) /\ calls[c].op = "google_maps_reviews"
        /\ Named(d, "google_play_reviews") /\ "google_play_reviews" \in mcp.tools
        /\ Answered(d) /\ http[d].status_code = 500
        /\ calls[d].pc = "idle"

(***************************************************************************)
(* C25: for google_maps_search and google_maps_reviews the `async`         *)
(* parameter sent equals the mode the response of the same call is read    *)
(* with: sent true exactly when the decoded body is returned as it is,     *)
(* sent false exactly when `data` is taken out of it.  The six other       *)
(* operations send no `async` parameter and read the response in Sync mode.*)
(***************************************************************************)
\* the decoded body was returned as it is
Verbatim(c) == calls[c].result = [kind |-> "return", value |-> calls[c].response.text]

\* `data` was taken out of the decoded body
Extracted(c) ==
    calls[c].result = [kind |-> "return", value |-> DataOrEmpty(calls[c].response.text)]

C25_FlagEqualsMode ==
    \A c \in CallIds :
        /\ Started(c) /\ calls[c].op \in {"google_maps_search", "google_maps_reviews"} =>
              /\ "async" \in DOMAIN calls[c].plan.params
              /\ ObjectAnswer(c) =>
                    /\ calls[c].plan.params.async <=> Verbatim(c)
                    /\ ~calls[c].plan.params.async <=> Extracted(c)
        /\ Started(c) /\ calls[c].op \in SyncOnlyOps =>
              /\ "async" \notin DOMAIN calls[c].plan.params
              /\ ObjectAnswer(c) => Extracted(c) /\ ~Verbatim(c)

\* a single-query reviews call with reviews_limit 0 sent async = TRUE and got
\* the decoded body back as it is, `data` not taken out
C25_Witness ==
    \E c \in CallIds :
        /\ ObjectAnswer(c)
        /\ calls[c].op = "google_maps_reviews"
        /\ calls[c].args.reviews_limit = 0 /\ QueryCount(calls[c].query) = 1
        /\ calls[c].plan.params.async /\ Verbatim(c) /\ ~Extracted(c)

(***************************************************************************)
(* C27: when google_maps_reviews runs in Async mode and the answer is 2xx  *)
(* with a non-empty JSON object, the tool returns its header with no block *)
(* after it, whatever the object holds; google_maps_search in Async mode   *)
(* returns its header followed by the object.                              *)
(***************************************************************************)
\* an Async call answered 2xx with a non-empty JSON object
EnvelopeAnswer(c) ==
    ObjectAnswer(c) /\ calls[c].plan.wait_async /\ Truthy(calls[c].response.text)

C27_ReviewsAsyncHidesEnvelope ==
    \A c \in CallIds :
        EnvelopeAnswer(c) =>
            /\ calls[c].op = "google_maps_reviews" =>
                  calls[c].output = Listing(None, <<>>, <<>>)
            /\ calls[c].op = "google_maps_search" =>
                  calls[c].output = RawDump(calls[c].response.text)

\* an Async google_maps_reviews call whose answer carried records under
\* `data` returned the bare header
C27_Witness ==
    \E c \in CallIds :
        /\ EnvelopeAnswer(c) /\ calls[c].op = "google_maps_reviews"
        /\ calls[c].response.text.has_data
        /\ Truthy(calls[c].response.text.data)
        /\ calls[c].output = Listing(None, <<>>, <<>>)

(***************************************************************************)
(* C28: in google_maps_search, google_search, google_search_news and       *)
(* google_play_reviews, when the Sync payload is a sequence of several     *)
(* nested sequences, one per query, the records of the first one only are  *)
(* used: no record of a later one is delivered, and the output is the one  *)
(* of a payload that holds the first nested sequence alone.                *)
(***************************************************************************)
\* a sequence of two or more sequences
SeveralGroups(p) == Len(p) >= 2 /\ \A i \in 1..Len(p) : p[i].kind = "list"

C28_OnlyFirstGroupUsed ==
    \A c \in CallIds :
        ( /\ SyncListAnswer(c) /\ calls[c].op \in UnwrappingOps
          /\ SeveralGroups(Payload(c)) ) =>
            /\ calls[c].output =
                  Format(calls[c].op, calls[c].args, JList(<<Payload(c)[1]>>))
            /\ NotCut(c, Len(Payload(c)[1].items)) =>
                  Delivered(c) = Mappings(Payload(c)[1].items)
            /\ \A i \in 2..Len(Payload(c)) : \A j \in 1..Len(Payload(c)[i].items) :
                  \A k \in 1..Len(Delivered(c)) :
                      Delivered(c)[k] # Payload(c)[i].items[j]

\* google_search_news was answered [[{1}], [{2}], [{3}]] and delivered {1} alone
C28_Witness ==
    \E c \in CallIds :
        /\ SyncListAnswer(c) /\ calls[c].op = "google_search_news"
        /\ SeveralGroups(Payload(c)) /\ Len(Payload(c)) = 3
        /\ Len(Payload(c)[2].items) = 1
        /\ Delivered(c) = <<JDict(1)>>

====
